---- MODULE Spec2Model ----
(***************************************************************************)
(* A model of mdbook-luacats: the Workspace builder (src/src/workspace.rs)  *)
(* and the Markdown printer (src/src/print.rs).                             *)
(*                                                                         *)
(* Text (file names, headings, views) is a sequence of one-character        *)
(* strings, so that file_stem, file-name ordering and the printer's output  *)
(* are computed character by character.  A path is a sequence of            *)
(* components, each a text.                                                 *)
(***************************************************************************)
EXTENDS Integers, Sequences, FiniteSets, TLC

VARIABLES
    root,      \* Workspace.root: the absolute path of the workspace folder
    docs,      \* the Vec<Definition> handed to Workspace::load
    files,     \* Workspace.files: the top-level MetaFile list
    result,    \* outcome of the last load: "none", "ok", "err" or "panic"
    pc,        \* "new" after construction, then "loaded" / "failed" /
               \* "panicked" / "printed" / "decoded" / "encoded" / "ran" /
               \* "built" / "cleaned" / "reloaded"
    options,   \* MarkdownPrinter.options
    node,      \* the Definition handed to print_definition
    out,       \* the String print_definition returned
    json,      \* the JSON document handed to serde_json::from_str
    decoded,   \* None, or the module whose types from_str decoded into and
               \* what it returned
    encoded,   \* None, or the JSON document serde_json::to_string wrote
    book,      \* Book.sections of the book handed to the preprocessor
    actual_book,
               \* None, or the sections of the Book that run returned
    cleaned,   \* None, or the Vec<Definition> clean_docs returned
    reloaded   \* None, or the outcome of a second load, on a second Workspace
               \* with the same root, of the same docs

vars == <<root, docs, files, result, pc, options, node, out, json, decoded, encoded,
          book, actual_book, cleaned, reloaded>>

-----------------------------------------------------------------------------
(* Option<T> *)

None == [some |-> FALSE]

Some(v) == [some |-> TRUE, v |-> v]

-----------------------------------------------------------------------------
(* Strings: byte-wise ordering, as Rust's String::cmp *)

CharCode ==
    "." :> 46 @@ "/" :> 47 @@ ":" :> 58 @@ "a" :> 97 @@ "b" :> 98 @@ "c" :> 99 @@
    "d" :> 100 @@ "e" :> 101 @@ "f" :> 102 @@ "i" :> 105 @@ "l" :> 108 @@
    "o" :> 111 @@ "t" :> 116 @@ "w" :> 119 @@ "x" :> 120

RECURSIVE StrCmp(_, _)
StrCmp(s, t) ==
    IF s = <<>> THEN (IF t = <<>> THEN 0 ELSE -1)
    ELSE IF t = <<>> THEN 1
    ELSE IF CharCode[Head(s)] < CharCode[Head(t)] THEN -1
    ELSE IF CharCode[Head(s)] > CharCode[Head(t)] THEN 1
    ELSE StrCmp(Tail(s), Tail(t))

-----------------------------------------------------------------------------
(* Paths *)

\* strip_prefix that drops as many components as the base has without
\* comparing them.
StripPrefixUncompared(path, base) ==
    [ok |-> TRUE, path |-> SubSeq(path, Len(base) + 1, Len(path))]

\* Path::strip_prefix: component-wise; fails unless base is a prefix of path.
StripPrefix(path, base) ==
    IF Len(base) <= Len(path) /\ SubSeq(path, 1, Len(base)) = base
    THEN [ok |-> TRUE, path |-> SubSeq(path, Len(base) + 1, Len(path))]
    ELSE [ok |-> FALSE]

\* MetaFile::file_name: the last component of the path.
FileName(file) == file.path[Len(file.path)]

\* MetaFile::file_stem: the file name up to its last '.', or the whole name
\* when it has no '.' or its only '.' is the first character.
FileStem(file) ==
    LET name == FileName(file)
        dots == {i \in 1..Len(name) : name[i] = "."}
        last == IF dots = {} THEN 0 ELSE CHOOSE i \in dots : \A j \in dots : j <= i
    IN  IF last <= 1 THEN name ELSE SubSeq(name, 1, last - 1)

\* MetaFile::directory_name: None at depth 0, else the last component of the
\* path's parent.
DirectoryName(file) ==
    IF file.depth = 0 THEN None ELSE Some(file.path[Len(file.path) - 1])

-----------------------------------------------------------------------------
(* URL resolution.  A Define's file string is modelled by the parts that    *)
(* decide its resolution: its scheme ("" when the string has none), its     *)
(* host and its path segments.                                              *)

\* Url::parse(&define.file): a string without a scheme is a relative URL
\* without a base, which is an error.
UrlParse(file) ==
    IF file.scheme = "" THEN [ok |-> FALSE] ELSE [ok |-> TRUE, url |-> file]

\* Url::to_file_path: only a file: URL with no (or the local) host has one.
ToFilePath(url) ==
    IF url.scheme = "file" /\ url.host \in {"", "localhost"}
    THEN [ok |-> TRUE, path |-> url.segs]
    ELSE [ok |-> FALSE]

\* Lines 36-39 of load: the two fallible steps, ? on each.
ResolveFile(file) ==
    LET u == UrlParse(file)
    IN  IF ~u.ok THEN [ok |-> FALSE] ELSE ToFilePath(u.url)

-----------------------------------------------------------------------------
(* MetaFile *)

\* MetaFile::from without its sorted_by: the pairs stay in input order.
SortByStartOmitted(pairs) == pairs

\* sorted_by(|(a, _), (b, _)| a.cmp(b)): a stable sort of the (start,
\* Definition) pairs by start.  Each element is placed behind every element of
\* the sorted prefix that does not sort after it.
RECURSIVE SortByStart(_)
SortByStart(pairs) ==
    IF pairs = <<>> THEN <<>>
    ELSE LET n    == Len(pairs)
             init == SortByStart(SubSeq(pairs, 1, n - 1))
             x    == pairs[n]
             k    == Cardinality({i \in 1..Len(init) : init[i][1] <= x[1]})
         IN  SubSeq(init, 1, k) \o <<x>> \o SubSeq(init, k + 1, Len(init))

\* usize::MAX, the value of 0 - 1 in a usize when overflow is not checked.
\* It stands at the largest integer of the model checker, far above the depth
\* of any path.
UsizeMax == 2147483647

\* count - 1 in a usize, wrapping.
WrappingSub1(count) == IF count = 0 THEN UsizeMax ELSE count - 1

\* impl From<(PathBuf, Vec<(u64, Definition)>)> for MetaFile, in a build
\* without overflow checks.  The path that equals the root has no component
\* left after strip_prefix, so its depth wraps.
MetaFileFrom(path, definitions) ==
    LET sorted == SortByStart(definitions)
    IN  [path        |-> path,
         definitions |-> [i \in 1..Len(sorted) |-> sorted[i][2]],
         depth       |-> WrappingSub1(Len(path)),
         sub_files   |-> <<>>]

\* MetaFile::add_sub_file
AddSubFile(parent, file) ==
    [parent EXCEPT !.sub_files = Append(@, file)]

-----------------------------------------------------------------------------
(* Workspace *)

\* Workspace::new
WorkspaceNew(p) == [root |-> p, files |-> <<>>]

\* MetaCmp without its .then(...): files are compared by depth alone.
MetaCmpDepthOnly(a, b) ==
    IF a.depth < b.depth THEN -1
    ELSE IF a.depth > b.depth THEN 1
    ELSE 0

\* The comparator of load's sorted_by: depth first, then file name.
MetaCmp(a, b) ==
    IF a.depth < b.depth THEN -1
    ELSE IF a.depth > b.depth THEN 1
    ELSE StrCmp(FileName(a), FileName(b))

\* load without its sorted_by: the MetaFiles stay in iteration order.
SortMetaFilesOmitted(ms) == ms

\* sorted_by (a stable sort) over the MetaFiles in iteration order.
RECURSIVE SortMetaFiles(_)
SortMetaFiles(ms) ==
    IF ms = <<>> THEN <<>>
    ELSE LET n    == Len(ms)
             init == SortMetaFiles(SubSeq(ms, 1, n - 1))
             x    == ms[n]
             k    == Cardinality({i \in 1..Len(init) : MetaCmp(init[i], x) <= 0})
         IN  SubSeq(init, 1, k) \o <<x>> \o SubSeq(init, k + 1, Len(init))

\* add_file without its fallback: a file with no parent is not pushed.
AddFileNoFallback(fs, file) ==
    IF file.depth = 0 THEN Append(fs, file)
    ELSE LET parents == {i \in 1..Len(fs) :
                            /\ fs[i].depth = file.depth - 1
                            /\ FileStem(fs[i]) = DirectoryName(file).v}
         IN  IF parents # {}
             THEN LET p == CHOOSE i \in parents : \A j \in parents : i <= j
                  IN  [fs EXCEPT ![p] = AddSubFile(@, file)]
             ELSE fs

\* add_file matching the parent by depth alone, without the stem test.
AddFileAnyStem(fs, file) ==
    IF file.depth = 0 THEN Append(fs, file)
    ELSE LET parents == {i \in 1..Len(fs) : fs[i].depth = file.depth - 1}
         IN  IF parents # {}
             THEN LET p == CHOOSE i \in parents : \A j \in parents : i <= j
                  IN  [fs EXCEPT ![p] = AddSubFile(@, file)]
             ELSE Append(fs, file)

\* Workspace::add_file
AddFile(fs, file) ==
    IF file.depth = 0 THEN Append(fs, file)
    ELSE LET parents == {i \in 1..Len(fs) :
                            /\ fs[i].depth = file.depth - 1
                            /\ FileStem(fs[i]) = DirectoryName(file).v}
         IN  IF parents # {}
             THEN LET p == CHOOSE i \in parents : \A j \in parents : i <= j
                  IN  [fs EXCEPT ![p] = AddSubFile(@, file)]
             ELSE Append(fs, file)

\* The loop of load over meta_files, calling add_file on each.
RECURSIVE AddFiles(_, _)
AddFiles(fs, ms) ==
    IF ms = <<>> THEN fs ELSE AddFiles(AddFile(fs, Head(ms)), Tail(ms))

\* The first loop of load indexing each Definition by its first Define only
\* (Definition::location of lua_cats.rs).
RECURSIVE IndexDefsPrimaryOnly(_, _, _, _)
IndexDefsPrimaryOnly(ds, i, j, map) ==
    IF i > Len(ds) THEN [ok |-> TRUE, map |-> map]
    ELSE IF j > Len(ds[i].defines) \/ j > 1 THEN IndexDefsPrimaryOnly(ds, i + 1, 1, map)
    ELSE LET define == ds[i].defines[j]
             r      == ResolveFile(define.file)
         IN  IF ~r.ok THEN [ok |-> FALSE]
             ELSE LET old == IF r.path \in DOMAIN map THEN map[r.path] ELSE <<>>
                      new == Append(old, <<define.start, ds[i]>>)
                  IN  IndexDefsPrimaryOnly(ds, i, j + 1,
                          [p \in DOMAIN map \cup {r.path} |->
                              IF p = r.path THEN new ELSE map[p]])

\* The first loop of load with a continue in place of the ?: a Define that does
\* not resolve is skipped.
RECURSIVE IndexDefsSkipBad(_, _, _, _)
IndexDefsSkipBad(ds, i, j, map) ==
    IF i > Len(ds) THEN [ok |-> TRUE, map |-> map]
    ELSE IF j > Len(ds[i].defines) THEN IndexDefsSkipBad(ds, i + 1, 1, map)
    ELSE LET define == ds[i].defines[j]
             r      == ResolveFile(define.file)
         IN  IF ~r.ok THEN IndexDefsSkipBad(ds, i, j + 1, map)
             ELSE LET old == IF r.path \in DOMAIN map THEN map[r.path] ELSE <<>>
                      new == Append(old, <<define.start, ds[i]>>)
                  IN  IndexDefsSkipBad(ds, i, j + 1,
                          [p \in DOMAIN map \cup {r.path} |->
                              IF p = r.path THEN new ELSE map[p]])

\* The first loop of load: every Define of every Definition, in order, is
\* resolved and pushed onto its file's vector.  The first Define that does
\* not resolve ends the loop with an error.
RECURSIVE IndexDefs(_, _, _, _)
IndexDefs(ds, i, j, map) ==
    IF i > Len(ds) THEN [ok |-> TRUE, map |-> map]
    ELSE IF j > Len(ds[i].defines) THEN IndexDefs(ds, i + 1, 1, map)
    ELSE LET define == ds[i].defines[j]
             r      == ResolveFile(define.file)
         IN  IF ~r.ok THEN [ok |-> FALSE]
             ELSE LET old == IF r.path \in DOMAIN map THEN map[r.path] ELSE <<>>
                      new == Append(old, <<define.start, ds[i]>>)
                  IN  IndexDefs(ds, i, j + 1,
                          [p \in DOMAIN map \cup {r.path} |->
                              IF p = r.path THEN new ELSE map[p]])

\* filter_map over the groups in the order the HashMap yields them: groups
\* outside the root are discarded, the others become MetaFiles.
RECURSIVE FilterMap(_, _, _)
FilterMap(order, map, rt) ==
    IF order = <<>> THEN <<>>
    ELSE LET rel  == StripPrefix(Head(order), rt)
             rest == FilterMap(Tail(order), map, rt)
         IN  IF rel.ok THEN <<MetaFileFrom(rel.path, map[Head(order)])>> \o rest
             ELSE rest

\* The orders in which a HashMap with these keys may be iterated.
RECURSIVE IterOrders(_)
IterOrders(keys) ==
    IF keys = {} THEN {<<>>}
    ELSE UNION {{<<k>> \o o : o \in IterOrders(keys \ {k})} : k \in keys}


-----------------------------------------------------------------------------
(* Workspace::load *)

\* The value load leaves in self.files and the value it returns, when the
\* HashMap of groups is iterated in order.
LoadResult(fs, rt, map, order) ==
    AddFiles(fs, SortMetaFiles(FilterMap(order, map, rt)))

\* The build profiles: debug checks integer overflow, release wraps.
Builds == {"debug", "release"}

\* Some group's path is the root itself: its relative path is empty.
HasRootFile(ms) == \E i \in DOMAIN ms : ms[i].path = <<>>

\* The panics of load on the MetaFiles ms, which hold one with an empty
\* path: the overflow check of count() - 1 (line 156) in a debug build; the
\* unwrap of file_name (line 134), which the comparator of sorted_by calls on
\* every element as soon as there are two; the unwrap of path.parent() in
\* directory_name (line 119), once a top-level file has the depth before
\* the wrapped one; and file_name again in the argument of log::warn!
\* (line 90), which is evaluated only when a logger takes warnings.
LoadPanics(fs, ms, build, logger) ==
    /\ HasRootFile(ms)
    /\ \/ build = "debug"
       \/ Len(ms) >= 2
       \/ \E i \in DOMAIN fs : fs[i].depth = UsizeMax - 1
       \/ logger

\* The outcomes of Workspace::load(ds) on a Workspace with root rt and files
\* fs: the value it returns ("panic" when it does not return) and the files
\* it leaves.  The first Define that does not resolve ends load with an error
\* before any file is added.  Otherwise the outcome depends on the order in
\* which the HashMap yields the groups and, when a group is the root itself,
\* on the build profile and on the logger.  A panic unwinds out of load; the
\* Workspace is not looked at afterwards.
LoadOutcomes(fs, rt, ds) ==
    LET idx == IndexDefs(ds, 1, 1, <<>>)
    IN  IF ~idx.ok THEN {[result |-> "err", files |-> fs]}
        ELSE UNION {
                 IF HasRootFile(FilterMap(order, idx.map, rt))
                 THEN {IF LoadPanics(fs, FilterMap(order, idx.map, rt), build, logger)
                       THEN [result |-> "panic", files |-> fs]
                       ELSE [result |-> "ok", files |-> LoadResult(fs, rt, idx.map, order)] :
                           build \in Builds, logger \in BOOLEAN}
                 ELSE {[result |-> "ok", files |-> LoadResult(fs, rt, idx.map, order)]} :
                     order \in IterOrders(DOMAIN idx.map)}

\* Where a caller of load stands after it.
AfterLoad(res) ==
    IF res = "ok" THEN "loaded" ELSE IF res = "err" THEN "failed" ELSE "panicked"

\* Workspace::load(docs) on the Workspace (root, files).
Load ==
    /\ pc = "new"
    /\ \E o \in LoadOutcomes(files, root, docs) :
           /\ files' = o.files
           /\ result' = o.result
           /\ pc' = AfterLoad(o.result)
    /\ UNCHANGED <<root, docs, options, node, out, json, decoded, encoded, book,
                   actual_book, cleaned, reloaded>>

\* Two Workspaces of the same root each load the same docs.  Each load builds
\* a HashMap of its own, and a HashMap::new() draws its own hasher keys: the
\* two maps need not yield their groups in the same order.
LoadTwice ==
    /\ pc = "new"
    /\ \E o1 \in LoadOutcomes(files, root, docs), o2 \in LoadOutcomes(files, root, docs) :
           /\ files' = o1.files
           /\ result' = o1.result
           /\ reloaded' = Some(o2)
    /\ pc' = "reloaded"
    /\ UNCHANGED <<root, docs, options, node, out, json, decoded, encoded, book,
                   actual_book, cleaned>>

-----------------------------------------------------------------------------
(* JSON.  A document is a tree of tagged values; an object holds its members *)
(* as a function from keys to values.  Strings of a document are kept whole, *)
(* the decoders never look inside them.                                      *)

JNull == [t |-> "null"]

JNum(n) == [t |-> "num", n |-> n]

JStr(s) == [t |-> "str", s |-> s]

JArr(items) == [t |-> "arr", items |-> items]

JObj(fields) == [t |-> "obj", fields |-> fields]

\* No document.
NoJson == JNull

Err == [ok |-> FALSE]

Ok(v) == [ok |-> TRUE, v |-> v]

-----------------------------------------------------------------------------
(* serde: the derived Deserialize of the documentation types                 *)

\* Two modules declare the documentation types: lua_cats.rs, where
\* DefinitionType is an enum, and types.rs, where it is a String.  The
\* decoders take the module as mod.

\* enum DefinitionType with its serde names: rename_all = "lowercase" and the
\* renames of single variants.
DefinitionType ==
    "binary" :> "Binary" @@ "doc.alias" :> "DocAlias" @@ "doc.class" :> "DocClass" @@
    "doc.extends.name" :> "DocExtendsName" @@ "doc.enum" :> "DocEnum" @@
    "doc.type" :> "DocType" @@ "function" :> "Function" @@
    "function.return" :> "FunctionReturn" @@ "integer" :> "Integer" @@
    "local" :> "Local" @@ "nil" :> "Nil" @@ "number" :> "Number" @@
    "self" :> "SelfType" @@ "setfield" :> "SetField" @@ "setglobal" :> "SetGlobal" @@
    "setmethod" :> "SetMethod" @@ "string" :> "String" @@ "table" :> "Table" @@
    "tablefield" :> "TableField" @@ "type" :> "Type" @@ "variable" :> "Variable" @@
    "..." :> "VarArg"

\* u64: a number that is not negative.
DecodeU64(j) == IF j.t = "num" /\ j.n >= 0 THEN Ok(j.n) ELSE Err

\* String
DecodeString(j) == IF j.t = "str" THEN Ok(j.s) ELSE Err

\* DefinitionType: in lua_cats.rs one of the names of the enum, decoded to
\* its variant; in types.rs any string.
DecodeKind(mod, j) ==
    IF j.t # "str" THEN Err
    ELSE IF mod = "types" THEN Ok(j.s)
    ELSE IF j.s \in DOMAIN DefinitionType THEN Ok(DefinitionType[j.s])
    ELSE Err

\* deserialize_struct of serde_json: an object, or an array that gives the
\* fields by position.  An array has one element per field; only fields with
\* serde(default) may be missing at its end.
IsStruct(j, fields, defaults) ==
    \/ j.t = "obj"
    \/ /\ j.t = "arr"
       /\ Len(j.items) <= Len(fields)
       /\ \A i \in (Len(j.items) + 1)..Len(fields) : fields[i] \in defaults

\* What stands for a member that the struct does not have.  It is no value
\* of any type: a field of type T that is missing is an error (missing
\* field).
Missing == [t |-> "missing"]

\* The member of the struct j for a field, if it is there.  Members with
\* other keys are ignored.
Member(j, fields, key) ==
    IF j.t = "obj"
    THEN (IF key \in DOMAIN j.fields THEN j.fields[key] ELSE Missing)
    ELSE LET pos == CHOOSE i \in DOMAIN fields : fields[i] = key
         IN  IF pos <= Len(j.items) THEN j.items[pos] ELSE Missing

\* A field of type Option<T> with member m, r being m decoded as a T: a
\* missing member and null are None.
Optional(m, r) ==
    IF m.t \in {"missing", "null"} THEN Ok(None)
    ELSE IF r.ok THEN Ok(Some(r.v)) ELSE Err

\* The elements of an array.
Items(j) == IF j.t = "arr" THEN j.items ELSE <<>>

\* Vec<T>, rs being the elements of j decoded as T: an array whose elements
\* all decode, in order.
DecodeVec(j, rs) ==
    IF j.t # "arr" THEN Err
    ELSE IF \A i \in DOMAIN rs : rs[i].ok
    THEN Ok([i \in DOMAIN rs |-> rs[i].v])
    ELSE Err

FuncArgFields == <<"name", "type", "view", "start", "finish">>

\* struct FuncArg
DecodeFuncArg(mod, j) ==
    IF ~IsStruct(j, FuncArgFields, {}) THEN Err
    ELSE LET name     == Optional(Member(j, FuncArgFields, "name"), DecodeString(Member(j, FuncArgFields, "name")))
             lua_type == DecodeKind(mod, Member(j, FuncArgFields, "type"))
             view     == DecodeString(Member(j, FuncArgFields, "view"))
             start    == DecodeU64(Member(j, FuncArgFields, "start"))
             finish   == DecodeU64(Member(j, FuncArgFields, "finish"))
         IN  IF name.ok /\ lua_type.ok /\ view.ok /\ start.ok /\ finish.ok
             THEN Ok([name |-> name.v, lua_type |-> lua_type.v, view |-> view.v,
                      start |-> start.v, finish |-> finish.v])
             ELSE Err

\* Vec<FuncArg>
DecodeFuncArgs(mod, j) ==
    DecodeVec(j, [i \in DOMAIN Items(j) |-> DecodeFuncArg(mod, Items(j)[i])])

FuncReturnFields == <<"name", "type", "view">>

\* struct FuncReturn
DecodeFuncReturn(mod, j) ==
    IF ~IsStruct(j, FuncReturnFields, {}) THEN Err
    ELSE LET name     == Optional(Member(j, FuncReturnFields, "name"), DecodeString(Member(j, FuncReturnFields, "name")))
             lua_type == DecodeKind(mod, Member(j, FuncReturnFields, "type"))
             view     == DecodeString(Member(j, FuncReturnFields, "view"))
         IN  IF name.ok /\ lua_type.ok /\ view.ok
             THEN Ok([name |-> name.v, lua_type |-> lua_type.v, view |-> view.v])
             ELSE Err

\* Vec<FuncReturn>
DecodeFuncReturns(mod, j) ==
    DecodeVec(j, [i \in DOMAIN Items(j) |-> DecodeFuncReturn(mod, Items(j)[i])])

ExtendFields == <<"start", "finish", "type", "view", "desc", "rawdesc", "args", "returns">>

\* struct Extend
DecodeExtend(mod, j) ==
    IF ~IsStruct(j, ExtendFields, {}) THEN Err
    ELSE LET start    == DecodeU64(Member(j, ExtendFields, "start"))
             finish   == DecodeU64(Member(j, ExtendFields, "finish"))
             lua_type == DecodeKind(mod, Member(j, ExtendFields, "type"))
             view     == DecodeString(Member(j, ExtendFields, "view"))
             desc     == Optional(Member(j, ExtendFields, "desc"), DecodeString(Member(j, ExtendFields, "desc")))
             rawdesc  == Optional(Member(j, ExtendFields, "rawdesc"), DecodeString(Member(j, ExtendFields, "rawdesc")))
             args     == Optional(Member(j, ExtendFields, "args"),
                                  DecodeFuncArgs(mod, Member(j, ExtendFields, "args")))
             returns  == Optional(Member(j, ExtendFields, "returns"),
                                  DecodeFuncReturns(mod, Member(j, ExtendFields, "returns")))
         IN  IF /\ start.ok /\ finish.ok /\ lua_type.ok /\ view.ok
                /\ desc.ok /\ rawdesc.ok /\ args.ok /\ returns.ok
             THEN Ok([start |-> start.v, finish |-> finish.v, lua_type |-> lua_type.v,
                      view |-> view.v, desc |-> desc.v, rawdesc |-> rawdesc.v,
                      args |-> args.v, returns |-> returns.v])
             ELSE Err

\* Vec<Extend>
DecodeExtends(mod, j) ==
    DecodeVec(j, [i \in DOMAIN Items(j) |-> DecodeExtend(mod, Items(j)[i])])

\* deserialize_extends keeping only the first element of an array.
DeserializeExtendsFirstOnly(mod, j) ==
    IF j.t = "arr"
    THEN DecodeExtends(mod, JArr(SubSeq(j.items, 1, IF j.items = <<>> THEN 0 ELSE 1)))
    ELSE IF j.t = "obj"
    THEN LET r == DecodeExtend(mod, j) IN IF r.ok THEN Ok(<<r.v>>) ELSE Err
    ELSE Err

\* deserialize_extends: deserialize_any hands an array to visit_seq and an
\* object to visit_map.  It hands null to visit_unit and a string or a number
\* to visit_str or visit_u64 and the like, none of which the visitor has: an
\* invalid-type error.  visit_none is called by deserialize_option only.
DeserializeExtends(mod, j) ==
    IF j.t = "arr"
    THEN DecodeExtends(mod, j)
    ELSE IF j.t = "obj"
    THEN LET r == DecodeExtend(mod, j) IN IF r.ok THEN Ok(<<r.v>>) ELSE Err
    ELSE Err

DefineFields == <<"start", "finish", "type", "file", "extends">>

\* struct Define; extends has serde(default), a missing member is the empty
\* Vec.
DecodeDefine(mod, j) ==
    IF ~IsStruct(j, DefineFields, {"extends"}) THEN Err
    ELSE LET start    == DecodeU64(Member(j, DefineFields, "start"))
             finish   == DecodeU64(Member(j, DefineFields, "finish"))
             lua_type == DecodeKind(mod, Member(j, DefineFields, "type"))
             file     == DecodeString(Member(j, DefineFields, "file"))
             member   == Member(j, DefineFields, "extends")
             extends  == IF member # Missing THEN DeserializeExtends(mod, member)
                         ELSE Ok(<<>>)
         IN  IF start.ok /\ finish.ok /\ lua_type.ok /\ file.ok /\ extends.ok
             THEN Ok([start |-> start.v, finish |-> finish.v, lua_type |-> lua_type.v,
                      file |-> file.v, extends |-> extends.v])
             ELSE Err

\* Vec<Define>
DecodeDefines(mod, j) ==
    DecodeVec(j, [i \in DOMAIN Items(j) |-> DecodeDefine(mod, Items(j)[i])])

DefinitionFields == <<"desc", "rawdesc", "name", "type", "defines">>

\* struct Definition
DecodeDefinition(mod, j) ==
    IF ~IsStruct(j, DefinitionFields, {}) THEN Err
    ELSE LET desc     == Optional(Member(j, DefinitionFields, "desc"), DecodeString(Member(j, DefinitionFields, "desc")))
             rawdesc  == Optional(Member(j, DefinitionFields, "rawdesc"), DecodeString(Member(j, DefinitionFields, "rawdesc")))
             name     == DecodeString(Member(j, DefinitionFields, "name"))
             lua_type == DecodeKind(mod, Member(j, DefinitionFields, "type"))
             defines  == DecodeDefines(mod, Member(j, DefinitionFields, "defines"))
         IN  IF desc.ok /\ rawdesc.ok /\ name.ok /\ lua_type.ok /\ defines.ok
             THEN Ok([desc |-> desc.v, rawdesc |-> rawdesc.v, name |-> name.v,
                      lua_type |-> lua_type.v, defines |-> defines.v])
             ELSE Err

\* from_str leaving out the Definitions that do not decode.
FromStrSkipBad(mod, j) ==
    IF j.t # "arr" THEN Err
    ELSE LET rs   == [i \in DOMAIN j.items |-> DecodeDefinition(mod, j.items[i])]
             good == SelectSeq([i \in DOMAIN rs |-> i], LAMBDA i : rs[i].ok)
         IN  Ok([n \in DOMAIN good |-> rs[good[n]].v])

\* serde_json::from_str::<Vec<Definition>>: the first error ends the decoding
\* and is all that is returned.
FromStr(mod, j) ==
    DecodeVec(j, [i \in DOMAIN Items(j) |-> DecodeDefinition(mod, Items(j)[i])])

\* generate_docs of luals.rs and lib.rs decoding doc.json into the types of
\* types.rs.
FromStrTypes ==
    /\ pc = "new"
    /\ decoded' = [module |-> "types", result |-> FromStr("types", json)]
    /\ pc' = "decoded"
    /\ UNCHANGED <<root, docs, files, result, options, node, out, json, encoded, book,
                   actual_book, cleaned, reloaded>>

\* The same document decoded into the types of lua_cats.rs, which the
\* Workspace and the printer take.
FromStrLuaCats ==
    /\ pc = "new"
    /\ decoded' = [module |-> "lua_cats", result |-> FromStr("lua_cats", json)]
    /\ pc' = "decoded"
    /\ UNCHANGED <<root, docs, files, result, options, node, out, json, encoded, book,
                   actual_book, cleaned, reloaded>>

-----------------------------------------------------------------------------
(* serde: the derived Serialize of the documentation types.  Every field is   *)
(* written, under its serde name; None is written as null and a Vec as an    *)
(* array.                                                                    *)

\* DefinitionType: the String itself in types.rs, the serde name of the
\* variant in lua_cats.rs.
SerializeKind(mod, kind) ==
    IF mod = "types" THEN JStr(kind)
    ELSE JStr(CHOOSE name \in DOMAIN DefinitionType : DefinitionType[name] = kind)

\* Option<String>
SerializeOptionString(o) == IF o.some THEN JStr(o.v) ELSE JNull

SerializeFuncArg(mod, a) ==
    JObj([name |-> SerializeOptionString(a.name), type |-> SerializeKind(mod, a.lua_type),
          view |-> JStr(a.view), start |-> JNum(a.start), finish |-> JNum(a.finish)])

SerializeFuncReturn(mod, r) ==
    JObj([name |-> SerializeOptionString(r.name), type |-> SerializeKind(mod, r.lua_type),
          view |-> JStr(r.view)])

SerializeExtend(mod, e) ==
    JObj([start |-> JNum(e.start), finish |-> JNum(e.finish),
          type |-> SerializeKind(mod, e.lua_type), view |-> JStr(e.view),
          desc |-> SerializeOptionString(e.desc),
          rawdesc |-> SerializeOptionString(e.rawdesc),
          args |-> IF e.args.some
                   THEN JArr([i \in DOMAIN e.args.v |-> SerializeFuncArg(mod, e.args.v[i])])
                   ELSE JNull,
          returns |-> IF e.returns.some
                      THEN JArr([i \in DOMAIN e.returns.v |->
                                    SerializeFuncReturn(mod, e.returns.v[i])])
                      ELSE JNull])

\* extends has no serialize_with: it is written as the Vec it is.
SerializeDefine(mod, d) ==
    JObj([start |-> JNum(d.start), finish |-> JNum(d.finish),
          type |-> SerializeKind(mod, d.lua_type), file |-> JStr(d.file),
          extends |-> JArr([i \in DOMAIN d.extends |-> SerializeExtend(mod, d.extends[i])])])

\* Definition has no fields field.
SerializeDefinition(mod, d) ==
    JObj([desc |-> SerializeOptionString(d.desc), rawdesc |-> SerializeOptionString(d.rawdesc),
          name |-> JStr(d.name), type |-> SerializeKind(mod, d.lua_type),
          defines |-> JArr([i \in DOMAIN d.defines |-> SerializeDefine(mod, d.defines[i])])])

\* serde_json::to_string of the decoded Definitions.
ToJsonString ==
    /\ pc = "decoded"
    /\ decoded.result.ok
    /\ encoded' = Some(JArr([i \in DOMAIN decoded.result.v |->
                                 SerializeDefinition(decoded.module, decoded.result.v[i])]))
    /\ pc' = "encoded"
    /\ UNCHANGED <<root, docs, files, result, options, node, out, json, decoded, book,
                   actual_book, cleaned, reloaded>>

-----------------------------------------------------------------------------
(* Inputs *)

MaxDocs == 4

\* The workspace root, /w.
Root == << <<"w">> >>

LuaName(stem) == stem \o <<".", "l">>

\* Files under the root, relative to it: a.l, a.t, b.l, a/c.l, x/c.l and
\* a/c/d.l.  There is no x.l, so x/c.l never has a parent.
RelPaths ==
    { << LuaName(<<"a">>) >>,
      << <<"a", ".", "t">> >>,
      << LuaName(<<"b">>) >>,
      << <<"a">>, LuaName(<<"c">>) >>,
      << <<"x">>, LuaName(<<"c">>) >>,
      << <<"a">>, <<"c">>, LuaName(<<"d">>) >> }

\* A file outside the root, /o/a.l.
OutsidePath == << <<"o">>, LuaName(<<"a">>) >>

FileUrl(path) == [scheme |-> "file", host |-> "", segs |-> path]

\* Strings that do not resolve: a bare path (no scheme) and an http: URL.
BadFiles ==
    { [scheme |-> "", host |-> "", segs |-> Root \o << LuaName(<<"a">>) >>],
      [scheme |-> "http", host |-> "h", segs |-> Root \o << LuaName(<<"a">>) >>] }

GoodFiles == {FileUrl(Root \o p) : p \in RelPaths} \cup {FileUrl(OutsidePath)}

\* test_definition(file) of workspace.rs: one Define, at offset 0.
TestDefinition(file) ==
    [name    |-> <<"t">>,
     desc    |-> None,
     defines |-> << [start |-> 0, file |-> file, extends |-> <<>>] >>]

\* The lists of at most max Definitions, each with one Define.
TreeDocs(max) ==
    UNION {[1..n -> {TestDefinition(f) : f \in GoodFiles \cup BadFiles}] : n \in 0..max}

NoDefinition == [name |-> <<>>, desc |-> None, defines |-> <<>>]

NoOptions == [heading_level |-> None]

Init ==
    /\ root = Root
    /\ docs \in TreeDocs(MaxDocs)
    /\ files = WorkspaceNew(root).files
    /\ result = "none"
    /\ pc = "new"
    /\ options = NoOptions
    /\ node = NoDefinition
    /\ out = None
    /\ json = NoJson
    /\ decoded = None
    /\ encoded = None
    /\ book = <<>>
    /\ actual_book = None
    /\ cleaned = None
    /\ reloaded = None

Next == Load

Spec == Init /\ [][Next]_vars

-----------------------------------------------------------------------------
(* Inputs with several Defines per Definition *)

MaxDefines == 3

MaxStart == 1

\* a.l and b.l under the root, and the file outside it.
DefFiles ==
    { FileUrl(Root \o << LuaName(<<"a">>) >>),
      FileUrl(Root \o << LuaName(<<"b">>) >>),
      FileUrl(OutsidePath) }

DefineValues(maxStart) == [start : 0..maxStart, file : DefFiles, extends : {<<>>}]

\* The lists of non-empty defines lists with at most n Defines in all.
RECURSIVE DefineLists(_, _)
DefineLists(n, values) ==
    {<<>>} \cup
    UNION {{<<dl>> \o rest : dl \in [1..k -> values], rest \in DefineLists(n - k, values)} :
              k \in 1..n}

\* The i-th Definition of an input is named by i letters, so that no two
\* Definitions of an input are equal.
NameAt(i) == [k \in 1..i |-> "d"]

\* The lists of Definitions with at most max Defines in all, at offsets up to
\* maxStart.
DefDocs(max, maxStart) ==
    {[i \in 1..Len(l) |-> [name |-> NameAt(i), desc |-> None, defines |-> l[i]]] :
        l \in DefineLists(max, DefineValues(maxStart))}

InitDefs ==
    /\ root = Root
    /\ docs \in DefDocs(MaxDefines, MaxStart)
    /\ files = WorkspaceNew(root).files
    /\ result = "none"
    /\ pc = "new"
    /\ options = NoOptions
    /\ node = NoDefinition
    /\ out = None
    /\ json = NoJson
    /\ decoded = None
    /\ encoded = None
    /\ book = <<>>
    /\ actual_book = None
    /\ cleaned = None
    /\ reloaded = None

SpecDefs == InitDefs /\ [][Next]_vars

-----------------------------------------------------------------------------
(* Inputs in which every file string resolves: Definitions without Defines,  *)
(* a Define whose file is the root itself, and files with and without a      *)
(* parent                                                                    *)

MaxTotalDocs == 3

\* The root, a.l, a/c.l, x/c.l and a/c/d.l.
TotalFiles ==
    { FileUrl(Root),
      FileUrl(Root \o << LuaName(<<"a">>) >>),
      FileUrl(Root \o << <<"a">>, LuaName(<<"c">>) >>),
      FileUrl(Root \o << <<"x">>, LuaName(<<"c">>) >>),
      FileUrl(Root \o << <<"a">>, <<"c">>, LuaName(<<"d">>) >>) }

\* The lists of at most max Definitions, each with no Define or with one.
TotalDocs(max) ==
    UNION {[1..n -> {NoDefinition} \cup {TestDefinition(f) : f \in TotalFiles}] :
              n \in 0..max}

InitTotal ==
    /\ root = Root
    /\ docs \in TotalDocs(MaxTotalDocs)
    /\ files = WorkspaceNew(root).files
    /\ result = "none"
    /\ pc = "new"
    /\ options = NoOptions
    /\ node = NoDefinition
    /\ out = None
    /\ json = NoJson
    /\ decoded = None
    /\ encoded = None
    /\ book = <<>>
    /\ actual_book = None
    /\ cleaned = None
    /\ reloaded = None

SpecTotal == InitTotal /\ [][Next]_vars

-----------------------------------------------------------------------------
(* Inputs of two loads: files of one depth and one file name in different    *)
(* directories, and a file with several candidate parents                    *)

MaxTwiceDocs == 3

\* a.l, a/c.l, x/c.l and a/c/d.l.
TwiceFiles ==
    { FileUrl(Root \o << LuaName(<<"a">>) >>),
      FileUrl(Root \o << <<"a">>, LuaName(<<"c">>) >>),
      FileUrl(Root \o << <<"x">>, LuaName(<<"c">>) >>),
      FileUrl(Root \o << <<"a">>, <<"c">>, LuaName(<<"d">>) >>) }

\* The lists of at most max Definitions, each with one Define.
TwiceDocs(max) ==
    UNION {[1..n -> {TestDefinition(f) : f \in TwiceFiles}] : n \in 0..max}

InitTwice ==
    /\ root = Root
    /\ docs \in TwiceDocs(MaxTwiceDocs)
    /\ files = WorkspaceNew(root).files
    /\ result = "none"
    /\ pc = "new"
    /\ options = NoOptions
    /\ node = NoDefinition
    /\ out = None
    /\ json = NoJson
    /\ decoded = None
    /\ encoded = None
    /\ book = <<>>
    /\ actual_book = None
    /\ cleaned = None
    /\ reloaded = None

NextTwice == LoadTwice

SpecTwice == InitTwice /\ [][NextTwice]_vars

-----------------------------------------------------------------------------
(* MarkdownPrinter *)

DefaultHeadingLevel == 2

\* The line feed character, as one element of a text.
NL == "<LF>"

\* The backquote character, as one element of a text.
BQ == "<BQ>"

\* "#".repeat(n)
Repeat(c, n) == [k \in 1..n |-> c]

\* The two nested loops of print_definition: one write! per Extend, in the
\* order of the Defines and of each Define's Extends.
RECURSIVE WriteExtends(_, _, _, _)
WriteExtends(defines, i, j, str) ==
    IF i > Len(defines) THEN str
    ELSE IF j > Len(defines[i].extends) THEN WriteExtends(defines, i + 1, 1, str)
    ELSE WriteExtends(defines, i, j + 1,
             str \o <<BQ, BQ, BQ, "l", "u", "a", NL>>
                 \o defines[i].extends[j].view
                 \o <<NL, BQ, BQ, BQ, NL, NL>>)

\* print_definition writing the description paragraph whether or not there
\* is a description.
PrintDefinitionAlwaysDesc(opts, nd) ==
    LET heading_level ==
            IF opts.heading_level.some THEN opts.heading_level.v ELSE DefaultHeadingLevel
        str1 == Repeat("#", heading_level) \o <<" ">> \o nd.name \o <<NL, NL>>
        str2 == str1 \o (IF nd.desc.some THEN nd.desc.v ELSE <<>>) \o <<NL, NL>>
    IN  WriteExtends(nd.defines, 1, 1, str2)

\* MarkdownPrinter::print_definition; writing to a String does not fail, so
\* the result is always Ok(str).
PrintDefinition(opts, nd) ==
    LET heading_level ==
            IF opts.heading_level.some THEN opts.heading_level.v ELSE DefaultHeadingLevel
        str1 == Repeat("#", heading_level) \o <<" ">> \o nd.name \o <<NL, NL>>
        str2 == IF nd.desc.some THEN str1 \o nd.desc.v \o <<NL, NL>> ELSE str1
    IN  WriteExtends(nd.defines, 1, 1, str2)

\* A call of print_definition on node by a printer with options.
CallPrintDefinition ==
    /\ pc = "new"
    /\ out' = Some(PrintDefinition(options, node))
    /\ pc' = "printed"
    /\ UNCHANGED <<root, docs, files, result, options, node, json, decoded, encoded,
                   book, actual_book, cleaned, reloaded>>

-----------------------------------------------------------------------------
(* Inputs of the printer *)

MaxLevel == 3

MaxPrintDefines == 2

MaxExtends == 2

PrintNames == { <<"h", "i">>, <<"x">> }

\* No description, an empty one, and "Say".
PrintDescs == { None, Some(<<>>), Some(<<"S", "a", "y">>) }

PrintViews == { <<"f", "(", ")">>, <<"x">> }

SeqsUpTo(S, n) == UNION {[1..k -> S] : k \in 0..n}

\* Defines with at most maxExtends Extends each.
PrintDefines(maxExtends) ==
    [start : {0}, file : {FileUrl(Root \o << LuaName(<<"a">>) >>)},
     extends : SeqsUpTo([view : PrintViews], maxExtends)]

\* Definitions with at most maxDefines Defines.
PrintNodes(maxDefines, maxExtends) ==
    [name : PrintNames, desc : PrintDescs,
     defines : SeqsUpTo(PrintDefines(maxExtends), maxDefines)]

\* No heading level, and every level up to maxLevel.
PrintOptions(maxLevel) == [heading_level : {None} \cup {Some(l) : l \in 0..maxLevel}]

InitPrint ==
    /\ root = Root
    /\ docs = <<>>
    /\ files = WorkspaceNew(root).files
    /\ result = "none"
    /\ pc = "new"
    /\ options \in PrintOptions(MaxLevel)
    /\ node \in PrintNodes(MaxPrintDefines, MaxExtends)
    /\ out = None
    /\ json = NoJson
    /\ decoded = None
    /\ encoded = None
    /\ book = <<>>
    /\ actual_book = None
    /\ cleaned = None
    /\ reloaded = None

NextPrint == CallPrintDefinition

SpecPrint == InitPrint /\ [][NextPrint]_vars

-----------------------------------------------------------------------------
(* Documents to decode *)

MaxDecodeExtends == 2

MaxDecodeDefs == 2

\* The members every Extend must have.
ExtendMembers ==
    [start |-> JNum(0), finish |-> JNum(1), type |-> JStr("function"), view |-> JStr("f()")]

\* The members of an object but one.
Without(members, key) == [k \in DOMAIN members \ {key} |-> members[k]]

ArgJson(kind) ==
    JObj([name |-> JStr("x"), type |-> JStr(kind), view |-> JStr("x: string"),
          start |-> JNum(0), finish |-> JNum(1)])

\* A return value, which has no name.
ReturnJson(kind) == JObj([type |-> JStr(kind), view |-> JStr("string")])

\* An Extend with every member: a description, a null rawdesc, one argument
\* and one return value.
FullExtend(argKind, returnKind) ==
    JObj([start |-> JNum(2), finish |-> JNum(3), type |-> JStr("function"),
          view |-> JStr("g(x)"), desc |-> JStr("Say hello"), rawdesc |-> JNull,
          args |-> JArr(<<ArgJson(argKind)>>),
          returns |-> JArr(<<ReturnJson(returnKind)>>)])

\* The Extend of ExtendMembers with its fields given by position.
PositionalExtend ==
    JArr(<<JNum(0), JNum(1), JStr("function"), JStr("f()"), JNull, JNull, JNull, JNull>>)

\* What may stand as an entry of extends: two well-formed objects; objects
\* without view, start, finish or type; objects whose kind, whose argument's
\* kind or whose return value's kind is not one of the enum; an object with a
\* negative start; the positional form; and a string.
ExtendEntries ==
    { JObj(ExtendMembers),
      FullExtend("local", "function.return"),
      JObj(Without(ExtendMembers, "view")),
      JObj(Without(ExtendMembers, "start")),
      JObj(Without(ExtendMembers, "finish")),
      JObj(Without(ExtendMembers, "type")),
      JObj([ExtendMembers EXCEPT !.type = JStr("foo")]),
      FullExtend("foo", "function.return"),
      FullExtend("local", "foo"),
      JObj([ExtendMembers EXCEPT !.start = JNum(-1)]),
      PositionalExtend,
      JStr("f()") }

\* The values of a Define's extends member: none, null, one entry, or an array
\* of at most max entries.
ExtendsShapes(max) ==
    {None, Some(JNull)}
        \cup {Some(e) : e \in ExtendEntries}
        \cup {Some(JArr(l)) : l \in SeqsUpTo(ExtendEntries, max)}

\* A Define of a.l, with the extends member ext or without one.
DefineJson(kind, ext) ==
    IF ext.some
    THEN JObj([start |-> JNum(0), finish |-> JNum(1), type |-> JStr(kind),
               file |-> JStr("file:///w/a.l"), extends |-> ext.v])
    ELSE JObj([start |-> JNum(0), finish |-> JNum(1), type |-> JStr(kind),
               file |-> JStr("file:///w/a.l")])

\* A Definition as the language server writes it, with its fields member.
DefinitionJson(kind, defines) ==
    JObj([name |-> JStr("hello"), type |-> JStr(kind), desc |-> JStr("Say hello"),
          rawdesc |-> JStr("Say hello"), defines |-> JArr(defines),
          fields |-> JArr(<<JObj([name |-> JStr("x"), type |-> JStr("setfield")])>>)])

\* The document of one Definition with one Define, well-formed but for what
\* its extends member may be.
ShapeDoc(ext) == JArr(<<DefinitionJson("variable", <<DefineJson("setglobal", ext)>>)>>)

\* Definitions of which documents are made: well-formed ones (one Extend given
\* as an object, two given as an array, no Define at all); one with a kind
\* that is not of the enum in the Definition, in the Define, in the Extend, in
\* the argument and in the return value; ones with an entry of extends that
\* lacks its view, is a string, is positional or is null; and one without a
\* defines member.
DefinitionValues ==
    { DefinitionJson("variable", <<DefineJson("setglobal", Some(JObj(ExtendMembers)))>>),
      DefinitionJson("type", <<DefineJson("doc.class",
          Some(JArr(<<FullExtend("...", "function.return"), JObj(ExtendMembers)>>)))>>),
      DefinitionJson("variable", <<>>),
      DefinitionJson("foo", <<DefineJson("setglobal", Some(JObj(ExtendMembers)))>>),
      DefinitionJson("variable", <<DefineJson("foo", Some(JObj(ExtendMembers)))>>),
      DefinitionJson("variable", <<DefineJson("setglobal",
          Some(JObj([ExtendMembers EXCEPT !.type = JStr("foo")])))>>),
      DefinitionJson("variable", <<DefineJson("setglobal",
          Some(FullExtend("foo", "function.return")))>>),
      DefinitionJson("variable", <<DefineJson("setglobal",
          Some(FullExtend("local", "foo")))>>),
      DefinitionJson("variable", <<DefineJson("setglobal",
          Some(JArr(<<JObj(ExtendMembers), JObj(Without(ExtendMembers, "view"))>>)))>>),
      DefinitionJson("variable", <<DefineJson("setglobal", Some(JStr("f()")))>>),
      DefinitionJson("variable", <<DefineJson("setglobal", Some(JArr(<<PositionalExtend>>)))>>),
      DefinitionJson("variable", <<DefineJson("setglobal", Some(JNull))>>),
      JObj([name |-> JStr("hello"), type |-> JStr("variable")]) }

\* The documents: every extends shape in an otherwise well-formed document,
\* and the lists of at most maxDefs of the Definitions above.
DecodeInputs(maxExtends, maxDefs) ==
    {ShapeDoc(ext) : ext \in ExtendsShapes(maxExtends)}
        \cup {JArr(l) : l \in SeqsUpTo(DefinitionValues, maxDefs)}

InitDecode ==
    /\ root = Root
    /\ docs = <<>>
    /\ files = WorkspaceNew(root).files
    /\ result = "none"
    /\ pc = "new"
    /\ options = NoOptions
    /\ node = NoDefinition
    /\ out = None
    /\ json \in DecodeInputs(MaxDecodeExtends, MaxDecodeDefs)
    /\ decoded = None
    /\ encoded = None
    /\ book = <<>>
    /\ actual_book = None
    /\ cleaned = None
    /\ reloaded = None

NextDecode == FromStrTypes \/ FromStrLuaCats \/ ToJsonString

SpecDecode == InitDecode /\ [][NextDecode]_vars

-----------------------------------------------------------------------------
(* The preprocessor *)

\* MarkdownPrinter::print: the chunks of the definitions joined by line feeds.
RECURSIVE MarkdownPrint(_, _)
MarkdownPrint(opts, definitions) ==
    IF definitions = <<>> THEN <<>>
    ELSE IF Len(definitions) = 1 THEN PrintDefinition(opts, Head(definitions))
    ELSE PrintDefinition(opts, Head(definitions)) \o <<NL>>
             \o MarkdownPrint(opts, Tail(definitions))

\* Path::with_extension("md"): the stem of the file name, a dot and md.
WithExtensionMd(file) ==
    SubSeq(file.path, 1, Len(file.path) - 1) \o <<FileStem(file) \o <<".", "m", "d">>>>

\* build_chapter without its last assignment: the sub-items are built and
\* dropped.
BuildChapterNoSubItems(file, index, parent) ==
    [name         |-> FileStem(file),
     content      |-> MarkdownPrint(NoOptions, file.definitions),
     number       |-> Some(IF parent.some
                           THEN Append(IF parent.v.number.some THEN parent.v.number.v
                                       ELSE <<>>, index + 1)
                           ELSE <<index + 1>>),
     sub_items    |-> <<>>,
     path         |-> Some(WithExtensionMd(file)),
     source_path  |-> None,
     parent_names |-> IF parent.some THEN Append(parent.v.parent_names, parent.v.name)
                      ELSE <<>>]

\* build_chapter(file, index, parent); enumerate() counts the sub-files
\* from 0.
RECURSIVE BuildChapter(_, _, _)
BuildChapter(file, index, parent) ==
    LET chapter ==
            [name         |-> FileStem(file),
             content      |-> MarkdownPrint(NoOptions, file.definitions),
             number       |-> Some(IF parent.some
                                   THEN Append(IF parent.v.number.some
                                               THEN parent.v.number.v
                                               ELSE <<>>, index + 1)
                                   ELSE <<index + 1>>),
             sub_items    |-> <<>>,
             path         |-> Some(WithExtensionMd(file)),
             source_path  |-> None,
             parent_names |-> IF parent.some
                              THEN Append(parent.v.parent_names, parent.v.name)
                              ELSE <<>>]
        sub_items ==
            [k \in DOMAIN file.sub_files |->
                [item    |-> "Chapter",
                 chapter |-> BuildChapter(file.sub_files[k], k - 1, Some(chapter))]]
    IN  [chapter EXCEPT !.sub_items = sub_items]

\* config.part_title.unwrap_or("API Reference")
DefaultPartTitle == <<"A", "P", "I", " ", "R", "e", "f", "e", "r", "e", "n", "c", "e">>

\* Book::push_item
PushItem(sections, item) == Append(sections, item)

\* The loop of run over workspace.files.
RECURSIVE PushChapters(_, _, _)
PushChapters(sections, fs, index) ==
    IF index >= Len(fs) THEN sections
    ELSE PushChapters(
             PushItem(sections, [item    |-> "Chapter",
                                 chapter |-> BuildChapter(fs[index + 1], index, None)]),
             fs, index + 1)

\* LuaCats::run of preprocess.rs, from the Definitions generate_docs
\* returned: a new Workspace is loaded, and on success the part title and one
\* chapter per top-level file are pushed onto the book.  An error of load is
\* returned by the ?, and no Book with it.
Run ==
    /\ pc = "new"
    /\ \E o \in LoadOutcomes(WorkspaceNew(root).files, root, docs) :
           /\ files' = o.files
           /\ result' = o.result
           /\ IF o.result = "ok"
              THEN /\ actual_book' =
                          Some(PushChapters(
                                   PushItem(book, [item  |-> "PartTitle",
                                                   title |-> DefaultPartTitle]),
                                   o.files, 0))
                   /\ pc' = "ran"
              ELSE /\ actual_book' = None
                   /\ pc' = AfterLoad(o.result)
    /\ UNCHANGED <<root, docs, options, node, out, json, decoded, encoded, book,
                   cleaned, reloaded>>

\* build_chapter called on every file of a Workspace with its position, as
\* by the loop of run.
BuildChapters ==
    /\ pc = "new"
    /\ actual_book' = Some(PushChapters(book, files, 0))
    /\ pc' = "built"
    /\ UNCHANGED <<root, docs, files, result, options, node, out, json, decoded, encoded,
                   book, cleaned, reloaded>>

-----------------------------------------------------------------------------
(* Inputs of the preprocessor *)

MaxRunDocs == 3

MaxSections == 2

\* a.l, b.l, a/c.l, a/c/d.l and a string that does not resolve.
RunFiles ==
    { FileUrl(Root \o << LuaName(<<"a">>) >>),
      FileUrl(Root \o << LuaName(<<"b">>) >>),
      FileUrl(Root \o << <<"a">>, LuaName(<<"c">>) >>),
      FileUrl(Root \o << <<"a">>, <<"c">>, LuaName(<<"d">>) >>),
      [scheme |-> "", host |-> "", segs |-> Root \o << LuaName(<<"a">>) >>] }

RunDocs(max) == SeqsUpTo({TestDefinition(f) : f \in RunFiles}, max)

\* The chapter of the book of the repository's test.
Chapter1 ==
    [item    |-> "Chapter",
     chapter |-> [name         |-> <<"C", "h", "1">>,
                  content      |-> <<"#", " ", "C", "h", "1", NL>>,
                  number       |-> Some(<<1>>),
                  sub_items    |-> <<>>,
                  path         |-> Some(<< <<"c", "h", "1", ".", "m", "d">> >>),
                  source_path  |-> Some(<< <<"c", "h", "1", ".", "m", "d">> >>),
                  parent_names |-> <<>>]]

\* The books of at most max sections, each Chapter 1 or a part title.
Books(max) == SeqsUpTo({Chapter1, [item |-> "PartTitle", title |-> <<"G">>]}, max)

InitRun ==
    /\ root = Root
    /\ docs \in RunDocs(MaxRunDocs)
    /\ files = WorkspaceNew(root).files
    /\ result = "none"
    /\ pc = "new"
    /\ options = NoOptions
    /\ node = NoDefinition
    /\ out = None
    /\ json = NoJson
    /\ decoded = None
    /\ encoded = None
    /\ book \in Books(MaxSections)
    /\ actual_book = None
    /\ cleaned = None
    /\ reloaded = None

NextRun == Run

SpecRun == InitRun /\ [][NextRun]_vars

-----------------------------------------------------------------------------
(* MetaFile trees for build_chapter *)

MaxChapterDepth == 2

\* The MetaFile of the file name in the directory dir, with the Definitions
\* definitions and the sub-files sub_files.
MetaFileAt(dir, name, definitions, sub_files) ==
    [path        |-> Append(dir, name),
     definitions |-> definitions,
     depth       |-> Len(dir),
     sub_files   |-> sub_files]

\* a.l with one Definition, and b.t with two.
LeafA(dir, sub_files) ==
    MetaFileAt(dir, LuaName(<<"a">>),
               <<TestDefinition(FileUrl(Root \o Append(dir, LuaName(<<"a">>))))>>, sub_files)

LeafB(dir, sub_files) ==
    MetaFileAt(dir, <<"b", ".", "t">>,
               << [name |-> <<"d">>, desc |-> Some(<<"x">>), defines |-> <<>>],
                  TestDefinition(FileUrl(Root \o Append(dir, <<"b", ".", "t">>))) >>,
               sub_files)

\* The trees of MetaFiles in dir with at most depth levels below their top:
\* a node is a.l or b.t and has no sub-file, one sub-tree, or one sub-tree and
\* a b.t behind it.
RECURSIVE Trees(_, _)
Trees(depth, dir) ==
    LET subs(stem) ==
            IF depth = 0 THEN {<<>>}
            ELSE {<<>>}
                     \cup {<<t>> : t \in Trees(depth - 1, Append(dir, stem))}
                     \cup {<<t, LeafB(Append(dir, stem), <<>>)>> :
                               t \in Trees(depth - 1, Append(dir, stem))}
    IN  {LeafA(dir, sf) : sf \in subs(<<"a">>)} \cup {LeafB(dir, sf) : sf \in subs(<<"b">>)}

\* The top-level lists: one tree, alone or before or behind a b.t.
Forests(depth) ==
    UNION {{<<t>>, <<t, LeafB(<<>>, <<>>)>>, <<LeafB(<<>>, <<>>), t>>} : t \in Trees(depth, <<>>)}

InitChapter ==
    /\ root = Root
    /\ docs = <<>>
    /\ files \in Forests(MaxChapterDepth)
    /\ result = "none"
    /\ pc = "new"
    /\ options = NoOptions
    /\ node = NoDefinition
    /\ out = None
    /\ json = NoJson
    /\ decoded = None
    /\ encoded = None
    /\ book = <<>>
    /\ actual_book = None
    /\ cleaned = None
    /\ reloaded = None

NextChapter == BuildChapters

SpecChapter == InitChapter /\ [][NextChapter]_vars

-----------------------------------------------------------------------------
(* clean_docs.  A Define's file is here the string itself, character by     *)
(* character.                                                                *)

FilePrefix == <<"f", "i", "l", "e", ":", "/", "/">>

\* str::strip_prefix(prefix).unwrap_or(str)
StripPrefixOr(str, prefix) ==
    IF Len(prefix) <= Len(str) /\ SubSeq(str, 1, Len(prefix)) = prefix
    THEN SubSeq(str, Len(prefix) + 1, Len(str))
    ELSE str

\* The pieces of str between its slashes.
RECURSIVE SplitAtSlash(_)
SplitAtSlash(str) ==
    IF \A i \in DOMAIN str : str[i] # "/" THEN <<str>>
    ELSE LET i == CHOOSE k \in DOMAIN str :
                      str[k] = "/" /\ \A m \in 1..(k - 1) : str[m] # "/"
         IN  <<SubSeq(str, 1, i - 1)>> \o SplitAtSlash(SubSeq(str, i + 1, Len(str)))

\* PathBuf::from(str) as Path::components sees it: whether it begins at the
\* root directory, and its normal components.  Empty pieces and single dots
\* are no components, except a dot that begins a relative path.
PathFrom(str) ==
    LET pieces   == SplitAtSlash(str)
        absolute == str # <<>> /\ str[1] = "/"
        keep     == SelectSeq([i \in DOMAIN pieces |-> i],
                              LAMBDA i : /\ pieces[i] # <<>>
                                         /\ (pieces[i] = <<".">> => (i = 1 /\ ~absolute)))
    IN  [absolute |-> absolute, comps |-> [n \in DOMAIN keep |-> pieces[keep[n]]]]

\* Path::starts_with: component by component.
StartsWith(path, base) ==
    /\ path.absolute = base.absolute
    /\ Len(base.comps) <= Len(path.comps)
    /\ SubSeq(path.comps, 1, Len(base.comps)) = base.comps

\* The closure of the filter of clean_docs.
DefinedLocally(path, def) ==
    \E j \in DOMAIN def.defines :
        StartsWith(PathFrom(StripPrefixOr(def.defines[j].file, FilePrefix)), path)

\* The comparator of clean_docs without its .then(...): by file alone.
CleanCmpFileOnly(a, b) == StrCmp(a.defines[1].file, b.defines[1].file)

\* The comparator of clean_docs' sorted_by: the first Defines are compared by
\* file string, then by start.
CleanCmp(a, b) ==
    LET c == StrCmp(a.defines[1].file, b.defines[1].file)
    IN  IF c # 0 THEN c
        ELSE IF a.defines[1].start < b.defines[1].start THEN -1
        ELSE IF a.defines[1].start > b.defines[1].start THEN 1
        ELSE 0

\* sorted_by, a stable sort, with the comparator of clean_docs.
RECURSIVE SortedByFirstDefine(_)
SortedByFirstDefine(ds) ==
    IF ds = <<>> THEN <<>>
    ELSE LET n    == Len(ds)
             init == SortedByFirstDefine(SubSeq(ds, 1, n - 1))
             x    == ds[n]
             k    == Cardinality({i \in 1..Len(init) : CleanCmp(init[i], x) <= 0})
         IN  SubSeq(init, 1, k) \o <<x>> \o SubSeq(init, k + 1, Len(init))

\* clean_docs(path, docs).  The comparator's expect("missing define") is met
\* by what passed the filter only, which has a Define.
CleanDocs(path, ds) ==
    SortedByFirstDefine(SelectSeq(ds, LAMBDA def : DefinedLocally(path, def)))

\* clean_docs(&definitions_path, docs), the path being absolute.
CallCleanDocs ==
    /\ pc = "new"
    /\ cleaned' = Some(CleanDocs([absolute |-> TRUE, comps |-> root], docs))
    /\ pc' = "cleaned"
    /\ UNCHANGED <<root, docs, files, result, options, node, out, json, decoded, encoded,
                   book, actual_book, reloaded>>

-----------------------------------------------------------------------------
(* Inputs of clean_docs *)

MaxCleanDefines == 3

\* file:///w/a.l; /w/a.l, which has no prefix to strip; file:///o/a.l, outside
\* the root; and file:///wa/a.l, whose directory only begins like the root.
CleanFiles ==
    { FilePrefix \o <<"/", "w", "/", "a", ".", "l">>,
      <<"/", "w", "/", "a", ".", "l">>,
      FilePrefix \o <<"/", "o", "/", "a", ".", "l">>,
      FilePrefix \o <<"/", "w", "a", "/", "a", ".", "l">> }

CleanDefineValues == [start : {0, 1}, file : CleanFiles, extends : {<<>>}]

\* The lists of defines lists of at most n Defines in all, a defines list
\* without a Define counting as one.
RECURSIVE CleanDefineLists(_)
CleanDefineLists(n) ==
    {<<>>} \cup
    UNION {{<<dl>> \o rest :
               dl \in [1..k -> CleanDefineValues] \cup (IF k = 1 THEN {<<>>} ELSE {}),
               rest \in CleanDefineLists(n - k)} :
              k \in 1..n}

CleanInputs(max) ==
    {[i \in 1..Len(l) |-> [name |-> NameAt(i), desc |-> None, defines |-> l[i]]] :
        l \in CleanDefineLists(max)}

InitClean ==
    /\ root = Root
    /\ docs \in CleanInputs(MaxCleanDefines)
    /\ files = WorkspaceNew(root).files
    /\ result = "none"
    /\ pc = "new"
    /\ options = NoOptions
    /\ node = NoDefinition
    /\ out = None
    /\ json = NoJson
    /\ decoded = None
    /\ encoded = None
    /\ book = <<>>
    /\ actual_book = None
    /\ cleaned = None
    /\ reloaded = None

NextClean == CallCleanDocs

SpecClean == InitClean /\ [][NextClean]_vars

-----------------------------------------------------------------------------
(* Vocabulary of the properties *)

\* Every node of the forest, parents before their sub-files.
RECURSIVE NodeSeq(_)
NodeSeq(fs) ==
    IF fs = <<>> THEN <<>>
    ELSE <<Head(fs)>> \o NodeSeq(Head(fs).sub_files) \o NodeSeq(Tail(fs))

Nodes == LET ns == NodeSeq(files) IN {ns[i] : i \in DOMAIN ns}

\* Every list of siblings of the forest: the top-level list and each
\* node's sub_files.
SiblingLists == {files} \cup {n.sub_files : n \in Nodes}

Elems(seq) == {seq[i] : i \in DOMAIN seq}

\* The (doc, define) positions of the input.
Occurrences == UNION {{<<i, j>> : j \in DOMAIN docs[i].defines} : i \in DOMAIN docs}

FileAt(o) == docs[o[1]].defines[o[2]].file

\* The input's file strings that are file: URLs of paths below the root, as
\* root-relative paths.
IsUnderRoot(file) ==
    /\ file.scheme = "file"
    /\ Len(file.segs) >= Len(root)
    /\ \A k \in 1..Len(root) : file.segs[k] = root[k]

RelOf(file) == [k \in 1..(Len(file.segs) - Len(root)) |-> file.segs[k + Len(root)]]

InputRel == {RelOf(FileAt(o)) : o \in {q \in Occurrences : IsUnderRoot(FileAt(q))}}

\* The stem of a file name, character by character: the name without its last
\* '.' and what follows it (a leading '.' does not count).
StemOfName(name) ==
    IF \E i \in 2..Len(name) : name[i] = "."
    THEN LET i == CHOOSE i \in 2..Len(name) :
                     name[i] = "." /\ \A j \in (i + 1)..Len(name) : name[j] # "."
         IN  SubSeq(name, 1, i - 1)
    ELSE name

Last(seq) == seq[Len(seq)]

\* p has a parent among the input's files: a file one level up whose stem is
\* the name of p's directory.
HasParentFile(p) ==
    \E q \in InputRel : Len(q) = Len(p) - 1 /\ StemOfName(Last(q)) = p[Len(p) - 1]

\* s sorts before t, or equals it, byte by byte.
StrLeq(s, t) ==
    \/ \E k \in 1..Len(t) :
          /\ k <= Len(s)
          /\ \A i \in 1..(k - 1) : s[i] = t[i]
          /\ CharCode[s[k]] < CharCode[t[k]]
    \/ (Len(s) <= Len(t) /\ \A i \in 1..Len(s) : s[i] = t[i])

-----------------------------------------------------------------------------
(* C1 *)

C1_Shape ==
    /\ result = "ok"
    /\ \A p \in InputRel : Len(p) = 1 \/ (Len(p) = 2 /\ HasParentFile(p))

\* C1: when every file under the root is at depth 0, or at depth 1 with a
\* depth-0 file whose stem is its directory name, the top-level list is
\* exactly the depth-0 files in ascending file-name order, and each depth-1
\* file is a sub-file of one depth-0 file with that stem and is nowhere else.
C1_TopLevelAndSubFiles ==
    C1_Shape =>
        /\ Len(files) = Cardinality({p \in InputRel : Len(p) = 1})
        /\ {files[i].path : i \in DOMAIN files} = {p \in InputRel : Len(p) = 1}
        /\ \A i, j \in DOMAIN files :
              i < j => /\ StrLeq(Last(files[i].path), Last(files[j].path))
                       /\ Last(files[i].path) # Last(files[j].path)
        /\ \A p \in {q \in InputRel : Len(q) = 2} :
              /\ Cardinality(UNION {{<<i, k>> : k \in {m \in DOMAIN files[i].sub_files :
                                                  files[i].sub_files[m].path = p}} :
                                     i \in DOMAIN files}) = 1
              /\ \A i \in DOMAIN files :
                    (\E k \in DOMAIN files[i].sub_files : files[i].sub_files[k].path = p)
                        => StemOfName(Last(files[i].path)) = p[1]
        /\ Len(NodeSeq(files)) = Cardinality(InputRel)

\* The layout of the repository's test, given out of order: three top-level
\* files in name order, the first with the one sub-file.
C1_Witness ==
    /\ C1_Shape
    /\ Len(docs) = 4
    /\ docs[1].defines[1].file = FileUrl(Root \o << LuaName(<<"b">>) >>)
    /\ Len(files) = 3
    /\ Len(files[1].sub_files) = 1
    /\ files[1].sub_files[1].path = << <<"a">>, LuaName(<<"c">>) >>

-----------------------------------------------------------------------------
(* C3 *)

\* The file with path p is a sub-file of a node one level up whose stem is the
\* name of p's directory.
IsSubFileOfParent(p) ==
    \E n \in Nodes :
        /\ n.depth = Len(p) - 2
        /\ StemOfName(Last(n.path)) = p[Len(p) - 1]
        /\ \E k \in DOMAIN n.sub_files : n.sub_files[k].path = p

\* C3: a file at any depth d > 0 whose directory name is the stem of a file at
\* depth d-1 is, after load, a sub-file of such a node and not in the
\* top-level list, also when that parent is itself a sub-file.
C3_EveryFileWithParentIsSubFile ==
    result = "ok" =>
        \A p \in InputRel :
            (Len(p) >= 2 /\ HasParentFile(p)) =>
                /\ IsSubFileOfParent(p)
                /\ \A i \in DOMAIN files : files[i].path # p

-----------------------------------------------------------------------------
(* C4 *)

\* C4: after a successful load every distinct file path under the root that
\* some Define resolves to is the path of exactly one node of the forest, and
\* a file at depth > 0 without a parent file is in the top-level list.
C4_NoFileDropped ==
    result = "ok" =>
        /\ \A p \in InputRel :
              Cardinality({k \in DOMAIN NodeSeq(files) : NodeSeq(files)[k].path = p}) = 1
        /\ \A p \in InputRel :
              (Len(p) >= 2 /\ ~HasParentFile(p)) =>
                  \E i \in DOMAIN files : files[i].path = p

\* A file two directories deep, with no file for either directory, is at the
\* top level next to a depth-0 file.
C4_Witness ==
    /\ result = "ok"
    /\ InputRel = { << <<"a">>, <<"c">>, LuaName(<<"d">>) >>, << LuaName(<<"b">>) >> }
    /\ Len(files) = 2
    /\ files[2].depth = 2

-----------------------------------------------------------------------------
(* C5 *)

-----------------------------------------------------------------------------
(* C9 *)

\* a is not behind b in (depth ascending, file name ascending) order.
InInsertOrder(a, b) ==
    \/ a.depth < b.depth
    \/ (a.depth = b.depth /\ StrLeq(Last(a.path), Last(b.path)))

-----------------------------------------------------------------------------
(* C10 *)

\* A file string that is no file: URL of the local host.
IsBadFile(file) == file.scheme # "file" \/ file.host \notin {"", "localhost"}

HasBadFile == \E o \in Occurrences : IsBadFile(FileAt(o))

\* C10: load returns an error when some Define, of any Definition, has a file
\* string that does not resolve, and then leaves the files list as it was
\* before the call.
C10_ErrorLeavesFilesUntouched ==
    [][(pc = "new" /\ pc' # "new") =>
          /\ (HasBadFile => result' = "err")
          /\ (result' = "err" => files' = files)]_vars

\* A failed load whose first Define resolved to a file under the root and
\* whose last Define is the one that does not resolve.
C10_Witness ==
    /\ result = "err"
    /\ Len(docs) = 3
    /\ IsUnderRoot(docs[1].defines[1].file)
    /\ ~IsBadFile(docs[2].defines[1].file)
    /\ docs[3].defines[1].file.scheme = "http"
    /\ files = <<>>

-----------------------------------------------------------------------------
(* C6 *)

HasDefineUnderRoot(d) == \E j \in DOMAIN d.defines : IsUnderRoot(d.defines[j].file)

\* C6: after load every MetaFile is the file of some Define under the root,
\* every Definition stored in a MetaFile has a Define under the root, and a
\* Definition whose Defines all lie outside the root is in no MetaFile.
C6_OnlyFilesUnderRoot ==
    result = "ok" =>
        /\ \A n \in Nodes : n.path \in InputRel
        /\ \A n \in Nodes : \A d \in Elems(n.definitions) : HasDefineUnderRoot(d)
        /\ \A i \in DOMAIN docs :
              ~HasDefineUnderRoot(docs[i]) =>
                  \A n \in Nodes : docs[i] \notin Elems(n.definitions)

\* One Definition defined outside the root first and under it second, which
\* is stored, and one defined outside the root only, which is not.
C6_Witness ==
    /\ result = "ok"
    /\ Len(docs) = 2
    /\ Len(docs[1].defines) = 2
    /\ ~IsUnderRoot(docs[1].defines[1].file)
    /\ IsUnderRoot(docs[1].defines[2].file)
    /\ ~HasDefineUnderRoot(docs[2])
    /\ Len(files) = 1
    /\ files[1].definitions = <<docs[1]>>

-----------------------------------------------------------------------------
(* C7 *)

\* The input positions whose Define is in the file with root-relative path p.
OccurrencesIn(p) ==
    {o \in Occurrences : IsUnderRoot(FileAt(o)) /\ RelOf(FileAt(o)) = p}

StartAt(o) == docs[o[1]].defines[o[2]].start

\* Input order of two positions.
IsBefore(o1, o2) == o1[1] < o2[1] \/ (o1[1] = o2[1] /\ o1[2] < o2[2])

\* C7: the definitions of every MetaFile are, entry by entry, the Defines of
\* that file in non-descending order of their start offsets, entries with
\* equal offsets in input order.
C7_DefinitionsSortedByStart ==
    result = "ok" =>
        \A n \in Nodes :
            \E f \in [DOMAIN n.definitions -> OccurrencesIn(n.path)] :
                /\ \A o \in OccurrencesIn(n.path) : \E k \in DOMAIN f : f[k] = o
                /\ \A k \in DOMAIN f : n.definitions[k] = docs[f[k][1]]
                /\ \A k1, k2 \in DOMAIN f :
                      k1 < k2 =>
                          \/ StartAt(f[k1]) < StartAt(f[k2])
                          \/ (StartAt(f[k1]) = StartAt(f[k2]) /\ IsBefore(f[k1], f[k2]))

\* A file whose three Defines come in the input with offsets 1, 0, 0: the
\* second and third Definitions, in that order, stand before the first.
C7_Witness ==
    /\ result = "ok"
    /\ Len(docs) = 3
    /\ docs[1].defines[1].start = 1
    /\ docs[2].defines[1].start = 0
    /\ docs[3].defines[1].start = 0
    /\ Len(files) = 1
    /\ files[1].definitions = <<docs[2], docs[3], docs[1]>>

-----------------------------------------------------------------------------
(* C8 *)

\* How often the Definition d is listed in the MetaFile n.
TimesListed(d, n) == Cardinality({k \in DOMAIN n.definitions : n.definitions[k] = d})

\* The statement of C8: a MetaFile lists exactly the Definitions whose first
\* Define is in its file, each once.
C8_ListedByPrimaryDefine ==
    result = "ok" =>
        \A n \in Nodes : \A i \in DOMAIN docs :
            TimesListed(docs[i], n) = IF <<i, 1>> \in OccurrencesIn(n.path) THEN 1 ELSE 0

\* C8, amended: a MetaFile lists a Definition once for every Define of it,
\* first or not, that is in the MetaFile's file.
C8_ListedOncePerDefine ==
    result = "ok" =>
        \A n \in Nodes :
            /\ \A i \in DOMAIN docs :
                  TimesListed(docs[i], n) =
                      Cardinality({o \in OccurrencesIn(n.path) : o[1] = i})
            /\ Len(n.definitions) = Cardinality(OccurrencesIn(n.path))

\* A Definition whose first Define is in b.l and whose two later Defines are
\* in a.l: it is listed once in b.l and twice in a.l.
C8_Witness ==
    /\ result = "ok"
    /\ Len(docs) = 1
    /\ Len(docs[1].defines) = 3
    /\ Len(files) = 2
    /\ files[1].definitions = <<docs[1], docs[1]>>
    /\ files[2].definitions = <<docs[1]>>
    /\ RelOf(docs[1].defines[1].file) = files[2].path

-----------------------------------------------------------------------------
(* C2 *)

\* The views of all Extends of all Defines, in list order.
RECURSIVE ViewsOf(_)
ViewsOf(defines) ==
    IF defines = <<>> THEN <<>>
    ELSE LET n == Len(defines)
         IN  ViewsOf(SubSeq(defines, 1, n - 1)) \o
                 [k \in DOMAIN defines[n].extends |-> defines[n].extends[k].view]

BlankLine == <<NL, NL>>

FenceOpen == <<BQ, BQ, BQ, "l", "u", "a", NL>>

FenceClose == <<NL, BQ, BQ, BQ>>

RECURSIVE CodeBlocks(_)
CodeBlocks(views) ==
    IF views = <<>> THEN <<>>
    ELSE FenceOpen \o Head(views) \o FenceClose \o BlankLine \o CodeBlocks(Tail(views))

\* The number of places of text where part begins.
TimesIn(part, text) ==
    Cardinality({k \in 1..(Len(text) - Len(part) + 1) :
                    SubSeq(text, k, k + Len(part) - 1) = part})

ConfiguredLevel == IF options.heading_level = None THEN 2 ELSE options.heading_level.v

\* C2: print_definition returns the heading (heading_level '#', 2 when none
\* is configured, a space, the name, a blank line), then the description and
\* a blank line only if there is a description, then one fenced lua block and
\* a blank line per Extend, in list order, and nothing else; there are as many
\* code blocks as Extends.
C2_PrintedText ==
    pc = "printed" =>
        /\ out.some
        /\ out.v = [k \in 1..ConfiguredLevel |-> "#"] \o <<" ">> \o node.name \o BlankLine
                   \o (IF node.desc = None THEN <<>> ELSE node.desc.v \o BlankLine)
                   \o CodeBlocks(ViewsOf(node.defines))
        /\ TimesIn(FenceOpen, out.v) = Len(ViewsOf(node.defines))

\* No heading level configured, no description, and three Extends in two
\* Defines.
C2_Witness ==
    /\ pc = "printed"
    /\ options.heading_level = None
    /\ node.desc = None
    /\ Len(node.defines) = 2
    /\ Len(node.defines[1].extends) = 1
    /\ Len(node.defines[2].extends) = 2
    /\ TimesIn(FenceOpen, out.v) = 3

-----------------------------------------------------------------------------
(* C11 *)

\* Some Define's file is the root path itself.
HasRootDefine == \E o \in Occurrences : FileAt(o) = FileUrl(root)

\* C11: load returns success, without panicking, whenever every Define's file
\* is a file: URL that converts to a path: for no Definitions, for Definitions
\* without Defines, for a Define whose path is the root itself and for files
\* at any depth with or without a parent.
C11_LoadIsTotal ==
    (pc # "new" /\ ~HasBadFile) => result = "ok"
-----------------------------------------------------------------------------
(* C12, C13 *)

\* The extends member of the only Define of a document of one Definition.
TheExtends ==
    IF /\ Len(json.items) = 1
       /\ "defines" \in DOMAIN json.items[1].fields
       /\ Len(json.items[1].fields.defines.items) = 1
    THEN LET define == json.items[1].fields.defines.items[1].fields
         IN  IF "extends" \in DOMAIN define THEN Some(define.extends) ELSE None
    ELSE None

\* The document is well-formed up to its one extends member.
IsShapeDoc == json = ShapeDoc(TheExtends)

\* The list of Extends decoded for the only Define.
DecodedExtends == decoded.result.v[1].defines[1].extends

\* C12: an extends member that is a single object decodes to the list that
\* the array of that one object decodes to, and fails when that array fails;
\* an array decodes to a list of the same length whose n-th element is what
\* the n-th entry alone decodes to.
C12_ShapesDecodeAlike ==
    (pc = "decoded" /\ IsShapeDoc /\ TheExtends.some) =>
        LET e   == TheExtends.v
            mod == decoded.module
        IN  /\ e.t = "obj" =>
                  /\ decoded.result.ok = DeserializeExtends(mod, JArr(<<e>>)).ok
                  /\ decoded.result.ok =>
                        /\ DecodedExtends = DeserializeExtends(mod, JArr(<<e>>)).v
                        /\ DecodedExtends = <<DecodeExtend(mod, e).v>>
            /\ (e.t = "arr" /\ decoded.result.ok) =>
                  /\ Len(DecodedExtends) = Len(e.items)
                  /\ \A n \in DOMAIN e.items :
                        /\ DecodedExtends[n] = DecodeExtend(mod, e.items[n]).v
                        /\ e.items[n].t = "obj" =>
                              <<DecodedExtends[n]>> = DeserializeExtends(mod, e.items[n]).v

\* An array of two different well-formed objects, the full one first, decoded
\* to two Extends in that order.
C12_Witness ==
    /\ pc = "decoded"
    /\ decoded.module = "lua_cats"
    /\ json = ShapeDoc(Some(JArr(<<FullExtend("local", "function.return"),
                                   JObj(ExtendMembers)>>)))
    /\ decoded.result.ok
    /\ Len(DecodedExtends) = 2
    /\ DecodedExtends[1].view = "g(x)"
    /\ DecodedExtends[2].view = "f()"

\* C13: a Define without an extends member and a Define whose extends member
\* is null both decode, and both to the empty list of Extends.
C13_AbsentAndNullAreEmpty ==
    (pc = "decoded" /\ IsShapeDoc /\ (~TheExtends.some \/ TheExtends.v.t = "null")) =>
        /\ decoded.result.ok
        /\ DecodedExtends = <<>>
-----------------------------------------------------------------------------
(* C14 *)

\* Some type member of a Definition, of a Define, of an Extend, of an argument
\* or of a return value of the document is a string that is not a name of
\* the enum.
RECURSIVE HasUnknownKind(_)
HasUnknownKind(j) ==
    IF j.t = "arr" THEN \E i \in DOMAIN j.items : HasUnknownKind(j.items[i])
    ELSE IF j.t = "obj"
    THEN \E k \in DOMAIN j.fields :
            \/ /\ k = "type"
               /\ j.fields[k].t = "str"
               /\ j.fields[k].s \notin DOMAIN DefinitionType
            \/ /\ k \in {"defines", "extends", "args", "returns"}
               /\ HasUnknownKind(j.fields[k])
    ELSE FALSE

\* C14: decoding fails whenever a kind tag of the document is a string
\* outside the closed set of kinds.
C14_UnknownKindFails ==
    (pc = "decoded" /\ HasUnknownKind(json)) => ~decoded.result.ok
-----------------------------------------------------------------------------
(* C15 *)

\* The extends members of the Defines of the document.
ExtendsMembers ==
    UNION {{json.items[i].fields.defines.items[k].fields.extends :
               k \in {n \in DOMAIN json.items[i].fields.defines.items :
                         "extends" \in DOMAIN json.items[i].fields.defines.items[n].fields}} :
           i \in {m \in DOMAIN json.items : "defines" \in DOMAIN json.items[m].fields}}

\* The entries of an extends member: the object itself, or the elements of the
\* array.
EntriesOf(x) ==
    IF x.t = "obj" THEN {x}
    ELSE IF x.t = "arr" THEN {x.items[i] : i \in DOMAIN x.items}
    ELSE {}

\* An object without its view, start, finish or type.
LacksRequired(e) ==
    e.t = "obj" /\ \E k \in {"view", "start", "finish", "type"} : k \notin DOMAIN e.fields

\* The statement of C15: the whole document fails to decode, and no list is
\* returned, when an entry of some extends lacks a required field or some
\* extends is neither an object, nor an array of objects, nor null.
C15_NotObjectsFailsAll ==
    (/\ pc = "decoded"
     /\ \E x \in ExtendsMembers :
           \/ x.t \notin {"obj", "arr", "null"}
           \/ \E e \in EntriesOf(x) : e.t # "obj" \/ LacksRequired(e))
        => (~decoded.result.ok /\ "v" \notin DOMAIN decoded.result)

\* C15, amended: the whole document fails to decode, and no list is returned,
\* when an entry of some extends is an object that lacks a required field or
\* is neither an object nor an array, or some extends is neither an object,
\* nor an array, nor null.
C15_MalformedEntryFailsAll ==
    (/\ pc = "decoded"
     /\ \E x \in ExtendsMembers :
           \/ x.t \notin {"obj", "arr", "null"}
           \/ \E e \in EntriesOf(x) : e.t \notin {"obj", "arr"} \/ LacksRequired(e))
        => (~decoded.result.ok /\ "v" \notin DOMAIN decoded.result)

\* A well-formed Definition followed by one whose second entry of extends has
\* no view: nothing is returned.
C15_Witness ==
    /\ pc = "decoded"
    /\ Len(json.items) = 2
    /\ FromStr(decoded.module, JArr(<<json.items[1]>>)).ok
    /\ \E x \in ExtendsMembers :
          /\ x.t = "arr"
          /\ Len(x.items) = 2
          /\ ~LacksRequired(x.items[1])
          /\ LacksRequired(x.items[2])
    /\ ~decoded.result.ok
    /\ "v" \notin DOMAIN decoded.result
-----------------------------------------------------------------------------
(* C16 *)

\* C16: the re-encoded document has, for every Definition, every member of
\* the input with the value it has in the input (the fields list, extends in
\* the shape it was given, every kind tag as it was spelled), and decodes to
\* what the input decoded to.
C16_RoundTrip ==
    pc = "encoded" =>
        /\ Len(encoded.v.items) = Len(json.items)
        /\ \A i \in DOMAIN json.items :
              \A k \in DOMAIN json.items[i].fields :
                  /\ k \in DOMAIN encoded.v.items[i].fields
                  /\ encoded.v.items[i].fields[k] = json.items[i].fields[k]
        /\ FromStr(decoded.module, encoded.v) = decoded.result
-----------------------------------------------------------------------------
(* C17 *)

\* C17: after a successful run the book's sections are the original sections,
\* unchanged and in their order, followed by the generated items, and there
\* are as many sections as there were plus one per top-level file of the
\* workspace.
C17_SectionsAppended ==
    pc = "ran" =>
        /\ Len(actual_book.v) >= Len(book)
        /\ SubSeq(actual_book.v, 1, Len(book)) = book
        /\ Len(actual_book.v) = Len(book) + Len(files)
-----------------------------------------------------------------------------
(* C18 *)

\* The text of one Definition under the default options: a level-2 heading
\* with the name, the description if there is one, and a code block per
\* Extend.
RenderingOf(d) ==
    <<"#", "#", " ">> \o d.name \o BlankLine
        \o (IF d.desc = None THEN <<>> ELSE d.desc.v \o BlankLine)
        \o CodeBlocks(ViewsOf(d.defines))

\* The renderings of the Definitions, a line feed between two of them.
RECURSIVE RenderingsOf(_)
RenderingsOf(definitions) ==
    IF definitions = <<>> THEN <<>>
    ELSE LET n == Len(definitions)
         IN  (IF n = 1 THEN <<>> ELSE RenderingsOf(SubSeq(definitions, 1, n - 1)) \o <<NL>>)
                 \o RenderingOf(definitions[n])

\* item is the chapter of file with this section number and these parent
\* names: its content renders the file's own definitions, it has one sub-item
\* per sub-file, in order, and the sub-item at position j (counted from 1) is
\* the chapter of the j-th sub-file with the number extended by j and the
\* parent names extended by the chapter's name.
RECURSIVE IsChapterOf(_, _, _, _)
IsChapterOf(item, file, number, parents) ==
    /\ item.item = "Chapter"
    /\ item.chapter.name = StemOfName(Last(file.path))
    /\ item.chapter.number = Some(number)
    /\ item.chapter.parent_names = parents
    /\ item.chapter.content = RenderingsOf(file.definitions)
    /\ Len(item.chapter.sub_items) = Len(file.sub_files)
    /\ \A j \in DOMAIN file.sub_files :
          IsChapterOf(item.chapter.sub_items[j], file.sub_files[j],
                      Append(number, j), Append(parents, item.chapter.name))

\* C18: build_chapter maps every top-level file at position i (counted from
\* 1) to a chapter tree of the file's shape numbered from <<i>>, with no
\* parent names at the top.
C18_ChapterTreeFollowsFiles ==
    pc = "built" =>
        /\ Len(actual_book.v) = Len(files)
        /\ \A i \in DOMAIN files : IsChapterOf(actual_book.v[i], files[i], <<i>>, <<>>)

\* A second top-level file with a sub-file that has a sub-file and a b.t
\* behind it: the chapters 2, 2.1, 2.1.1 and 2.2, the third with two parent
\* names.
C18_Witness ==
    /\ pc = "built"
    /\ Len(files) = 2
    /\ Len(files[2].sub_files) = 2
    /\ Len(files[2].sub_files[1].sub_files) = 1
    /\ actual_book.v[2].chapter.number = Some(<<2>>)
    /\ actual_book.v[2].chapter.sub_items[2].chapter.number = Some(<<2, 2>>)
    /\ actual_book.v[2].chapter.sub_items[1].chapter.sub_items[1].chapter.number
           = Some(<<2, 1, 1>>)
    /\ actual_book.v[2].chapter.sub_items[1].chapter.sub_items[1].chapter.parent_names
           = << <<"a">>, <<"b">> >>
    /\ actual_book.v[1].chapter.content
           = <<"#", "#", " ", "d", NL, NL, "x", NL, NL, NL, "#", "#", " ", "t", NL, NL>>
-----------------------------------------------------------------------------
(* C19 *)

\* The root as a string: a slash before each of its components.
RECURSIVE PathText(_)
PathText(comps) ==
    IF comps = <<>> THEN <<>> ELSE <<"/">> \o Head(comps) \o PathText(Tail(comps))

\* The file string, without a leading file://, is the root or continues it
\* with a slash.
LiesUnderRoot(file) ==
    LET str  == IF Len(file) >= Len(FilePrefix) /\ SubSeq(file, 1, Len(FilePrefix)) = FilePrefix
                THEN SubSeq(file, Len(FilePrefix) + 1, Len(file))
                ELSE file
        base == PathText(root)
    IN  \/ str = base
        \/ /\ Len(str) > Len(base)
           /\ SubSeq(str, 1, Len(base) + 1) = base \o <<"/">>

\* The positions of the input's Definitions that have a Define under the root.
KeptPositions ==
    {i \in DOMAIN docs : \E j \in DOMAIN docs[i].defines : LiesUnderRoot(docs[i].defines[j].file)}

\* The input position of the k-th Definition returned; the Definitions of an
\* input differ by name.
PositionOf(k) == CHOOSE i \in DOMAIN docs : docs[i] = cleaned.v[k]

\* The Definition at position i1 stands before the one at i2: by the file
\* string of its first Define, then by that Define's start, then by position.
SortsBefore(i1, i2) ==
    LET a == docs[i1].defines[1]
        b == docs[i2].defines[1]
    IN  \/ (StrLeq(a.file, b.file) /\ a.file # b.file)
        \/ (a.file = b.file /\ a.start < b.start)
        \/ (a.file = b.file /\ a.start = b.start /\ i1 < i2)

\* C19: clean_docs returns exactly the Definitions with a Define under the
\* path, each once, ordered by the file string and the start of their first
\* Define, equal ones in input order; it returns for every input.
C19_KeptAndSorted ==
    pc = "cleaned" =>
        /\ cleaned.some
        /\ Len(cleaned.v) = Cardinality(KeptPositions)
        /\ \A k \in DOMAIN cleaned.v : \E i \in KeptPositions : docs[i] = cleaned.v[k]
        /\ \A i \in KeptPositions : \E k \in DOMAIN cleaned.v : docs[i] = cleaned.v[k]
        /\ \A k1, k2 \in DOMAIN cleaned.v :
              k1 < k2 => SortsBefore(PositionOf(k1), PositionOf(k2))

\* Three Definitions of /w/a.l, the first at offset 1 and under another file
\* string, the others at offset 0: the first Definition is returned last, the
\* two others in their input order.
C19_Witness ==
    /\ pc = "cleaned"
    /\ Len(docs) = 3
    /\ \A i \in 1..3 : docs[i].defines # <<>>
    /\ docs[1].defines[1] = [start |-> 1, file |-> FilePrefix \o <<"/", "w", "/", "a", ".", "l">>,
                             extends |-> <<>>]
    /\ docs[2].defines[1].file = <<"/", "w", "/", "a", ".", "l">>
    /\ docs[3].defines[1] = docs[2].defines[1]
    /\ cleaned.v = <<docs[2], docs[3], docs[1]>>
-----------------------------------------------------------------------------
(* C20 *)

\* C20: two loads with the same root and the same Definitions that both
\* return Ok leave equal Workspaces: the same top-level files in the same
\* order, with the same sub_files in the same order.
C20_LoadIsDeterministic ==
    (pc = "reloaded" /\ result = "ok" /\ reloaded.v.result = "ok") =>
        files = reloaded.v.files
-----------------------------------------------------------------------------
(* C21 *)

\* The directory a file lies in: its path without the file name.
DirectoryPath(file) == SubSeq(file.path, 1, Len(file.path) - 1)

\* The path of a file with the extension of its file name removed.
PathWithoutExtension(file) == DirectoryPath(file) \o <<FileStem(file)>>

\* Every sub-file below the node lies in the directory named after its
\* parent's path.
RECURSIVE SubFilesLieInside(_)
SubFilesLieInside(parent) ==
    \A i \in DOMAIN parent.sub_files :
        /\ DirectoryPath(parent.sub_files[i]) = PathWithoutExtension(parent)
        /\ SubFilesLieInside(parent.sub_files[i])

\* C21: after a load that returned Ok, the directory path of every sub-file
\* equals its parent's path with the extension removed.
C21_SubFilesInsideParent ==
    (pc = "loaded" /\ result = "ok") =>
        \A i \in DOMAIN files : SubFilesLieInside(files[i])

=============================================================================
